---- MODULE Spec2Model ----
(***************************************************************************)
(* cdata: conversion between dataclass instances and ctypes               *)
(* Structure/Union instances (src/cdata/core.py).                         *)
(*                                                                         *)
(* Python values are tagged records (field k is the Python type):          *)
(*   int        [k |-> "int",   n |-> 0..]                                 *)
(*   bytes      [k |-> "bytes", b |-> <<byte, ...>>]                       *)
(*   str        [k |-> "str",   s |-> <<char, ...>>]                       *)
(*   None       [k |-> "None"]                                             *)
(*   list       [k |-> "list",  e |-> <<value, ...>>]                      *)
(*   tuple      [k |-> "tuple", t |-> <<value, ...>>]                      *)
(*   dataclass  [k |-> "obj", cls |-> name, f |-> [field |-> value]]       *)
(*   Structure  [k |-> "cstruct", ct |-> name, raw |-> [field |-> value]]  *)
(*   Array      [k |-> "carray", et |-> element ctype, a |-> <<raw, ...>>] *)
(* A ctypes Structure generated for dataclass X is named by X.             *)
(***************************************************************************)
EXTENDS Integers, Sequences, FiniteSets, TLC

VARIABLES
    defaults,       \* how the dataclasses declare class-level field defaults
    decode_hook,    \* CDataMixIn._decode_hook of the classes
    encode_hook,    \* CDataMixIn._encode_hook of the classes
    generated,      \* classes whose ctypes class _create_ctypes_class has cached
    enc,            \* the last to_ctype call and its outcome
    dec,            \* the last from_ctype / from_buffer_copy call and its outcome
    classes,        \* generator model: value types defined, id -> class record
    structures,     \* generator model: ctypes classes, id -> structure record
    ctypes_cache,   \* functools.cache of _create_ctypes_class
    dataclass_cache,\* functools.cache of _create_dataclass
    STRUCTURE_DATACLASS_MAP,  \* structure name -> value type id
    gen,            \* the last generator call and what it returned
    src,            \* from_dict: the mapping given
    made            \* from_dict: the call's outcome

vars == <<defaults, decode_hook, encode_hook, generated, enc, dec,
          classes, structures, ctypes_cache, dataclass_cache,
          STRUCTURE_DATACLASS_MAP, gen, src, made>>

convVars == <<defaults, decode_hook, encode_hook, generated, enc, dec>>
genVars == <<classes, structures, ctypes_cache, dataclass_cache,
             STRUCTURE_DATACLASS_MAP, gen>>
dictVars == <<src, made>>

----------------------------------------------------------------------------
(* Bounds of the model *)

\* length of the c_char arrays (10 in the test's Item)
StrLen == 2
\* length of the arrays of structures and of integers (5 and 6 in the test)
ArrLen == 2
\* the largest byte value used in bytes and str inputs
MaxByte == 1
\* the largest integer used as a field value
MaxNum == 1

----------------------------------------------------------------------------
(* Python values *)

None == [k |-> "None"]
PyInt(n) == [k |-> "int", n |-> n]
Bytes(b) == [k |-> "bytes", b |-> b]
Str(s) == [k |-> "str", s |-> s]
List(e) == [k |-> "list", e |-> e]
Tuple(t) == [k |-> "tuple", t |-> t]
Obj(cls, f) == [k |-> "obj", cls |-> cls, f |-> f]
CStruct(ct, raw) == [k |-> "cstruct", ct |-> ct, raw |-> raw]
CArray(et, a) == [k |-> "carray", et |-> et, a |-> a]

\* an outcome: a value, or the exception raised
Ok(v) == [ok |-> TRUE, val |-> v, err |-> "-"]
Raise(e) == [ok |-> FALSE, val |-> None, err |-> e]

----------------------------------------------------------------------------
(* ctypes field types *)

UINT32_BITS == 32
UINT16_BITS == 16

RECURSIVE Pow2(_)
Pow2(n) == IF n = 0 THEN 1 ELSE 2 * Pow2(n - 1)

c_uint32 == [t |-> "int", bits |-> UINT32_BITS]
c_uint16 == [t |-> "int", bits |-> UINT16_BITS]
c_char_array == [t |-> "chars", len |-> StrLen]
StructType(name) == [t |-> "struct", name |-> name]
ArrayType(et, n) == [t |-> "array", et |-> et, len |-> n]

Field(name, ctype) == [name |-> name, ctype |-> ctype]

\* _fields_ of the ctypes class generated for a dataclass: name and
\* metadata ctype of each dataclass field, in order
Fields(cls) ==
    CASE cls = "Item" ->
           <<Field("number", c_uint32), Field("string", c_char_array)>>
      [] cls = "MixInData" ->
           <<Field("number", c_uint32),
             Field("item", StructType("Item")),
             Field("items", ArrayType(StructType("Item"), ArrLen)),
             Field("int_array", ArrayType(c_uint16, ArrLen))>>
      [] OTHER -> <<>>

Dataclasses == {"Item", "MixInData"}

FieldNames(cls) == {Fields(cls)[i].name : i \in 1..Len(Fields(cls))}

RECURSIVE Zero(_)
\* the content of a field of a freshly created structure
Zero(ctype) ==
    CASE ctype.t = "int" -> PyInt(0)
      [] ctype.t = "chars" -> Bytes([i \in 1..ctype.len |-> 0])
      [] ctype.t = "struct" ->
           CStruct(ctype.name,
                   [n \in FieldNames(ctype.name) |->
                       LET i == CHOOSE j \in 1..Len(Fields(ctype.name)) :
                                    Fields(ctype.name)[j].name = n
                       IN Zero(Fields(ctype.name)[i].ctype)])
      [] ctype.t = "array" -> CArray(ctype.et, [i \in 1..ctype.len |-> Zero(ctype.et)])

\* bytes up to the first NUL: what reading a c_char array field returns
RECURSIVE UntilNul(_)
UntilNul(b) ==
    IF b = <<>> \/ Head(b) = 0 THEN <<>> ELSE <<Head(b)>> \o UntilNul(Tail(b))

\* getattr(structure, cname): the Python value a field reads as
CGet(ctype, raw) ==
    IF ctype.t = "chars" THEN Bytes(UntilNul(raw.b)) ELSE raw

\* n modulo 2^bits, for n >= 0. The integers of the model are below 2^31, so
\* an n the model can hold is its own residue modulo 2^32.
Wrap(n, bits) == IF bits > 30 THEN n ELSE n % Pow2(bits)

RECURSIVE CSet(_, _), ArrayNew(_, _, _)
\* (ctype)(*elems): an array from initialisers, the rest zero
ArrayNew(ctype, elems, i) ==
    IF i > Len(elems) THEN Ok(CArray(ctype.et, [j \in 1..ctype.len |-> Zero(ctype.et)]))
    ELSE IF i > ctype.len THEN Raise("IndexError")
    ELSE LET one == CSet(ctype.et, elems[i])
             rest == ArrayNew(ctype, elems, i + 1)
         IN IF ~one.ok THEN one
            ELSE IF ~rest.ok THEN rest
            ELSE Ok(CArray(ctype.et, [rest.val.a EXCEPT ![i] = one.val]))

\* setattr(structure, cname, value) on a fresh structure: the content the field
\* gets, or the exception ctypes raises. A c_char array takes the bytes up to
\* the first NUL.
CSet(ctype, value) ==
    CASE ctype.t = "int" ->
           IF value.k = "int" THEN Ok(PyInt(Wrap(value.n, ctype.bits)))
           ELSE Raise("TypeError")
      [] ctype.t = "chars" ->
           IF value.k # "bytes" THEN Raise("TypeError")
           ELSE IF Len(value.b) > ctype.len THEN Raise("ValueError")
           ELSE Ok(Bytes([i \in 1..ctype.len |->
                            IF i <= Len(UntilNul(value.b)) THEN value.b[i] ELSE 0]))
      [] ctype.t = "struct" ->
           IF value.k = "cstruct" /\ value.ct = ctype.name THEN Ok(value)
           ELSE Raise("TypeError")
      [] ctype.t = "array" ->
           IF value.k = "carray" /\ value.et = ctype.et /\ Len(value.a) = ctype.len
           THEN Ok(value)
           ELSE IF value.k = "tuple" THEN
                LET r == ArrayNew(ctype, value.t, 1)
                IN IF r.ok THEN r ELSE Raise("RuntimeError")
           ELSE Raise("TypeError")

\* bool(value)
Truthy(value) ==
    CASE value.k = "int" -> value.n # 0
      [] value.k = "bytes" -> value.b # <<>>
      [] value.k = "str" -> value.s # <<>>
      [] value.k = "None" -> FALSE
      [] value.k = "list" -> value.e # <<>>
      [] value.k = "tuple" -> value.t # <<>>
      [] value.k = "carray" -> value.a # <<>>
      [] OTHER -> TRUE

\* hasattr(cvalue, "_length_") and hasattr(cvalue, "_type_")
IsArray(value) == value.k = "carray"
\* issubclass(cvalue._type_, ctypes.Structure) or issubclass(.., ctypes.Union)
IsStructArray(value) == value.k = "carray" /\ value.et.t = "struct"
\* hasattr(cvalue, "_fields_")
HasFields(value) == value.k = "cstruct"

----------------------------------------------------------------------------
(* The dataclasses' class attributes and the hooks callers supply *)

DefaultStyles == {"absent", "None", "typed"}

\* hasattr(datacls, cname): a dataclass field declared without a default leaves
\* no class attribute; NoneType, int and the like have none of these names
HasAttr(datacls, cname) ==
    datacls \in Dataclasses /\ cname \in FieldNames(datacls) /\ defaults # "absent"

\* getattr(datacls, cname): the field's class-level default
ClassAttr(datacls, cname) ==
    IF defaults = "None" THEN None
    ELSE CASE cname = "number" -> PyInt(0)
           [] cname = "string" -> Bytes(<<>>)
           [] cname = "item" ->
                Obj("Item", [n \in FieldNames("Item") |->
                               IF n = "number" THEN PyInt(0) ELSE Bytes(<<>>)])
           [] OTHER -> None

\* value.__class__, as the name of a dataclass or of a builtin type
ClassOf(value) == IF value.k = "obj" THEN value.cls ELSE value.k

Hooks == {"double", "decode_str", "encode_str", "counter"}
NoHook == "None"

\* hook(cname, ctype, cvalue, dataclass_value), called after n earlier calls of
\* the hook in this conversion:
\*   double      doubles an integer field's binary value (decode)
\*   decode_str  turns a bytes field into a str (decode)
\*   encode_str  turns a str value into bytes (encode)
\*   counter     returns, for an integer field, how often it was called before
HookFn(hook, cname, ctype, cvalue, dv, n) ==
    CASE hook = "double" ->
           IF ctype.t = "int" /\ cvalue.k = "int" THEN PyInt(2 * cvalue.n) ELSE None
      [] hook = "decode_str" ->
           IF cvalue.k = "bytes" THEN Str(cvalue.b) ELSE None
      [] hook = "encode_str" ->
           IF dv.k = "str" THEN Bytes(dv.s) ELSE None
      [] hook = "counter" ->
           IF ctype.t = "int" THEN PyInt(n) ELSE None
      [] OTHER -> None

\* one hook call as logged: the field it was for, its arguments, its result
Call(path, ctype, cvalue, dv, res) ==
    [path |-> path, ctype |-> ctype, cvalue |-> cvalue, dv |-> dv, res |-> res]

\* HookStep with the hook called once and its result kept
HookStepOnce(hook, path, ctype, cvalue, dv, n) ==
    IF hook = NoHook THEN [taken |-> FALSE, val |-> None, calls |-> <<>>]
    ELSE LET r1 == HookFn(hook, path[Len(path)].f, ctype, cvalue, dv, n)
         IN [taken |-> r1.k # "None", val |-> r1,
             calls |-> <<Call(path, ctype, cvalue, dv, r1)>>]

\* `hook is not None and hook(...) is not None`, then `hook(...)` again for the
\* value: whether the hook overrides the field, with what, and the calls made
HookStep(hook, path, ctype, cvalue, dv, n) ==
    IF hook = NoHook THEN [taken |-> FALSE, val |-> None, calls |-> <<>>]
    ELSE LET cname == path[Len(path)].f
             r1 == HookFn(hook, cname, ctype, cvalue, dv, n)
             r2 == HookFn(hook, cname, ctype, cvalue, dv, n + 1)
         IN IF r1.k # "None"
            THEN [taken |-> TRUE, val |-> r2,
                  calls |-> <<Call(path, ctype, cvalue, dv, r1),
                              Call(path, ctype, cvalue, dv, r2)>>]
            ELSE [taken |-> FALSE, val |-> None,
                  calls |-> <<Call(path, ctype, cvalue, dv, r1)>>]

\* the conversion's trace: hook calls and field writes, and the exception if any
NewTrace == [hooklog |-> <<>>, writes |-> <<>>, err |-> "-"]
Write(path, branch, value) == [path |-> path, branch |-> branch, value |-> value]
Logged(st, calls) == [st EXCEPT !.hooklog = @ \o calls]
Wrote(st, path, branch, value) ==
    [st EXCEPT !.writes = Append(@, Write(path, branch, value))]
Failed(st, e) == [st EXCEPT !.err = e]
At(path, cname, i) == Append(path, [f |-> cname, i |-> i])

\* d[cname] = value
Put(d, cname, value) == [n \in (DOMAIN d) \cup {cname} |-> IF n = cname THEN value ELSE d[n]]

\* datacls called with d's items as keywords: the dataclass's generated __init__ takes exactly its fields
Construct(datacls, d) ==
    IF datacls \in Dataclasses /\ DOMAIN d = FieldNames(datacls)
    THEN Ok(Obj(datacls, d)) ELSE Raise("TypeError")

\* _create_dataclass(structure) for a structure generated from a dataclass:
\* the dataclass _STRUCTURE_DATACLASS_MAP holds under the structure's name
create_dataclass_of(ct) == ct

----------------------------------------------------------------------------
(* Decode: _ctypes2dataclass *)

\* (type(cvalue) not in [int, float, bool]) and not bool(cvalue)
IsSentinel(cvalue) == cvalue.k # "int" /\ ~Truthy(cvalue)

RECURSIVE ctypes2dataclass(_, _, _, _, _)
RECURSIVE DecodeFields(_, _, _, _, _, _)
RECURSIVE DecodeElems(_, _, _, _, _, _)

\* [_ctypes2dataclass(datacls, e, padding, hook) for e in cvalue], from element i
DecodeElems(datacls, cvalue, hook, path, st, i) ==
    IF i > Len(cvalue.a) THEN [val |-> <<>>, st |-> st]
    ELSE LET one == ctypes2dataclass(datacls, cvalue.a[i], hook,
                                     [path EXCEPT ![Len(path)].i = i], st)
         IN IF one.st.err # "-" THEN [val |-> <<>>, st |-> one.st]
            ELSE LET rest == DecodeElems(datacls, cvalue, hook, path, one.st, i + 1)
                 IN [val |-> <<one.val>> \o rest.val, st |-> rest.st]

\* the branches after the hook (lines 79-92): sentinel, array, nested, and the
\* assignment `d[cname] = cvalue` that follows them all
DecodeDefault(structure, hook, path, ctype, cvalue, dv, d, st) ==
    LET cname == path[Len(path)].f
        byDefault(d1, st1) ==
            [d |-> Put(d1, cname, cvalue), st |-> Wrote(st1, path, "default", cvalue)]
    IN IF IsSentinel(cvalue)
       THEN byDefault(Put(d, cname, None), Wrote(st, path, "sentinel", None))
       ELSE IF IsArray(cvalue)
       THEN IF IsStructArray(cvalue)
            THEN LET es == DecodeElems(create_dataclass_of(cvalue.et.name), cvalue,
                                       hook, path, st, 1)
                 IN IF es.st.err # "-" THEN [d |-> d, st |-> es.st]
                    ELSE byDefault(Put(d, cname, List(es.val)),
                                   Wrote(es.st, path, "array", List(es.val)))
            ELSE byDefault(Put(d, cname, List(cvalue.a)),
                           Wrote(st, path, "array", List(cvalue.a)))
       ELSE IF HasFields(cvalue)
       THEN LET sub == ctypes2dataclass(ClassOf(dv), cvalue, hook, path, st)
            IN IF sub.st.err # "-" THEN [d |-> d, st |-> sub.st]
               ELSE byDefault(Put(d, cname, sub.val),
                              Wrote(sub.st, path, "nested", sub.val))
       ELSE byDefault(d, st)

\* DecodeField without the `continue` after the hook's assignment
DecodeFieldFallsThrough(datacls, structure, hook, path, d, st) ==
    LET cname == path[Len(path)].f
        ctype == (CHOOSE fl \in {Fields(structure.ct)[j] : j \in 1..Len(Fields(structure.ct))} :
                     fl.name = cname).ctype
        cvalue == CGet(ctype, structure.raw[cname])
    IN IF ~HasAttr(datacls, cname) THEN [d |-> d, st |-> Failed(st, "AttributeError")]
       ELSE LET dv == ClassAttr(datacls, cname)
                h == HookStep(hook, path, ctype, cvalue, dv, Len(st.hooklog))
                st1 == Logged(st, h.calls)
            IN IF h.taken
               THEN DecodeDefault(structure, hook, path, ctype, cvalue, dv,
                                  Put(d, cname, h.val), Wrote(st1, path, "hook", h.val))
               ELSE DecodeDefault(structure, hook, path, ctype, cvalue, dv, d, st1)

\* one iteration of the loop over structure._fields_ (lines 72-92)
DecodeField(datacls, structure, hook, path, d, st) ==
    LET cname == path[Len(path)].f
        ctype == (CHOOSE fl \in {Fields(structure.ct)[j] : j \in 1..Len(Fields(structure.ct))} :
                     fl.name = cname).ctype
        cvalue == CGet(ctype, structure.raw[cname])
    IN IF ~HasAttr(datacls, cname) THEN [d |-> d, st |-> Failed(st, "AttributeError")]
       ELSE LET dv == ClassAttr(datacls, cname)
                h == HookStep(hook, path, ctype, cvalue, dv, Len(st.hooklog))
                st1 == Logged(st, h.calls)
            IN IF h.taken
               THEN [d |-> Put(d, cname, h.val), st |-> Wrote(st1, path, "hook", h.val)]
               ELSE DecodeDefault(structure, hook, path, ctype, cvalue, dv, d, st1)

DecodeFields(datacls, structure, hook, path, acc, i) ==
    IF i > Len(Fields(structure.ct)) \/ acc.st.err # "-" THEN acc
    ELSE LET one == DecodeField(datacls, structure, hook,
                                At(path, Fields(structure.ct)[i].name, 0), acc.d, acc.st)
         IN DecodeFields(datacls, structure, hook, path, one, i + 1)

\* _ctypes2dataclass(datacls, structure, padding, hook): [val, st]
ctypes2dataclass(datacls, structure, hook, path, st) ==
    LET acc == DecodeFields(datacls, structure, hook, path, [d |-> <<>>, st |-> st], 1)
    IN IF acc.st.err # "-" THEN [val |-> None, st |-> acc.st]
       ELSE LET made1 == Construct(datacls, acc.d)
            IN IF made1.ok THEN [val |-> made1.val, st |-> acc.st]
               ELSE [val |-> None, st |-> Failed(acc.st, made1.err)]

----------------------------------------------------------------------------
(* Encode: _dataclass2ctypes *)

\* whether `for e in value` works, and the elements it yields
Iterable(value) == value.k \in {"list", "tuple", "bytes", "str"}
Elements(value) ==
    CASE value.k = "list" -> value.e
      [] value.k = "tuple" -> value.t
      [] value.k = "bytes" -> [i \in 1..Len(value.b) |-> PyInt(value.b[i])]
      [] value.k = "str" -> [i \in 1..Len(value.s) |-> Str(<<value.s[i]>>)]
      [] OTHER -> <<>>

RECURSIVE dataclass2ctypes(_, _, _, _)
RECURSIVE EncodeFields(_, _, _, _, _)
RECURSIVE EncodeElems(_, _, _, _, _)

\* [_dataclass2ctypes(e, padding, hook) for e in dataclass_value], from element i
EncodeElems(elems, hook, path, st, i) ==
    IF i > Len(elems) THEN [val |-> <<>>, st |-> st]
    ELSE LET one == dataclass2ctypes(elems[i], hook, [path EXCEPT ![Len(path)].i = i], st)
         IN IF one.st.err # "-" THEN [val |-> <<>>, st |-> one.st]
            ELSE LET rest == EncodeElems(elems, hook, path, one.st, i + 1)
                 IN [val |-> <<one.val>> \o rest.val, st |-> rest.st]

\* setattr(structure, cname, value), logged as a write of the given branch
SetField(structure, path, ctype, branch, value, st) ==
    LET cname == path[Len(path)].f
        r == CSet(ctype, value)
    IN IF r.ok
       THEN [val |-> [structure EXCEPT !.raw[cname] = r.val],
             st |-> Wrote(st, path, branch, r.val)]
       ELSE [val |-> structure, st |-> Failed(st, r.err)]

\* the branches after the hook (lines 109-118): array, nested, and the
\* `setattr(structure, cname, dataclass_value)` that follows them all
EncodeDefault(structure, hook, path, ctype, cvalue, dv, st) ==
    LET byDefault(s1, st1) == SetField(s1, path, ctype, "default", dv, st1)
        fromArray(arr, st1) ==
            IF ~arr.ok THEN [val |-> structure, st |-> Failed(st1, arr.err)]
            ELSE LET w == SetField(structure, path, ctype, "array", arr.val, st1)
                 IN IF w.st.err # "-" THEN w ELSE byDefault(w.val, w.st)
    IN IF IsArray(cvalue)
       THEN IF ~Iterable(dv) THEN [val |-> structure, st |-> Failed(st, "TypeError")]
            ELSE IF IsStructArray(cvalue)
            THEN LET es == EncodeElems(Elements(dv), hook, path, st, 1)
                 IN IF es.st.err # "-" THEN [val |-> structure, st |-> es.st]
                    ELSE fromArray(ArrayNew(ctype, es.val, 1), es.st)
            ELSE fromArray(ArrayNew(ctype, Elements(dv), 1), st)
       ELSE IF HasFields(cvalue)
       THEN LET sub == dataclass2ctypes(dv, hook, path, st)
            IN IF sub.st.err # "-" THEN [val |-> structure, st |-> sub.st]
               ELSE LET w == SetField(structure, path, ctype, "nested", sub.val, sub.st)
                    IN IF w.st.err # "-" THEN w ELSE byDefault(w.val, w.st)
       ELSE byDefault(structure, st)

\* one iteration of the loop over structure._fields_ (lines 102-118)
EncodeField(inst, structure, hook, path, ctype, st) ==
    LET cname == path[Len(path)].f
        cvalue == CGet(ctype, structure.raw[cname])
        dv == inst.f[cname]
        h == HookStep(hook, path, ctype, cvalue, dv, Len(st.hooklog))
        st1 == Logged(st, h.calls)
    IN IF h.taken
       THEN SetField(structure, path, ctype, "hook", h.val, st1)
       ELSE EncodeDefault(structure, hook, path, ctype, cvalue, dv, st1)

EncodeFields(inst, hook, path, acc, i) ==
    IF i > Len(Fields(inst.cls)) \/ acc.st.err # "-" THEN acc
    ELSE LET fl == Fields(inst.cls)[i]
         IN EncodeFields(inst, hook, path,
                         EncodeField(inst, acc.val, hook, At(path, fl.name, 0),
                                     fl.ctype, acc.st),
                         i + 1)

\* _dataclass2ctypes(datacls_instance, padding, hook): [val, st]
dataclass2ctypes(inst, hook, path, st) ==
    IF inst.k # "obj" THEN [val |-> None, st |-> Failed(st, "AttributeError")]
    ELSE LET acc == EncodeFields(inst, hook, path,
                                 [val |-> Zero(StructType(inst.cls)), st |-> st], 1)
         IN IF acc.st.err # "-" THEN [val |-> None, st |-> acc.st] ELSE acc

----------------------------------------------------------------------------
(* The facade: CDataMixIn.to_ctype, from_ctype, from_buffer_copy *)

Idle == [op |-> "idle"]

\* from_ctype: `if hook is None: hook = cls._decode_hook`
DecodeHookFor(hook) == IF hook = NoHook THEN decode_hook ELSE hook

\* to_ctype: `if hook is None: hook = self.__class__._decode_hook`
EncodeHookFor(hook) == IF hook = NoHook THEN decode_hook ELSE hook

\* the record of a conversion call
Outcome(op, arg, hook, eff, r) ==
    [op |-> op, arg |-> arg, hook |-> hook, eff |-> eff,
     ok |-> r.st.err = "-", val |-> r.val, st |-> r.st]

(* Inputs *)

Nums == 0..MaxNum
\* byte strings of length n over 0..MaxByte
BytesOfLen(n) == [1..n -> 0..MaxByte]
ByteStrings == UNION {BytesOfLen(n) : n \in 0..StrLen}
Ones(n) == [i \in 1..n |-> 1]

ItemObj(number, string) ==
    Obj("Item", [n \in FieldNames("Item") |-> IF n = "number" THEN number ELSE string])
ItemRaw(number, string) ==
    CStruct("Item", [n \in FieldNames("Item") |-> IF n = "number" THEN number ELSE string])
DataOf(kind, number, item, items, int_array) ==
    LET f == [n \in FieldNames("MixInData") |->
                CASE n = "number" -> number
                  [] n = "item" -> item
                  [] n = "items" -> items
                  [] OTHER -> int_array]
    IN IF kind = "obj" THEN Obj("MixInData", f) ELSE CStruct("MixInData", f)

\* Item instances: integers and None, bytes (also one too long), str, None
ItemObjs ==
    {ItemObj(number, string) :
        number \in {PyInt(n) : n \in Nums} \cup {None},
        string \in {Bytes(b) : b \in ByteStrings} \cup {Bytes(Ones(StrLen + 1))}
                   \cup {Str(Ones(n)) : n \in 1..StrLen} \cup {None}}

SampleObj == ItemObj(PyInt(MaxNum), Bytes(Ones(1)))
DataObjs ==
    {DataOf("obj", PyInt(MaxNum), item, items, int_array) :
        item \in {SampleObj, None},
        items \in {List([i \in 1..ArrLen |-> SampleObj]), None},
        int_array \in {Tuple([i \in 1..ArrLen |-> PyInt(i)]),
                       List([i \in 1..ArrLen |-> PyInt(i)])}}

\* Item structures as a buffer's bytes make them
ItemRaws ==
    {ItemRaw(PyInt(n), Bytes(b)) : n \in Nums, b \in BytesOfLen(StrLen)}
SampleRaw == ItemRaw(PyInt(MaxNum), Bytes([i \in 1..StrLen |-> IF i = 1 THEN 1 ELSE 0]))
ZeroRaw == Zero(StructType("Item"))
DataRaws ==
    {DataOf("cstruct", PyInt(n), item, CArray(StructType("Item"), items),
            CArray(c_uint16, ints)) :
        n \in {0, MaxNum},
        item \in {ZeroRaw, SampleRaw},
        items \in {[i \in 1..ArrLen |-> ZeroRaw], [i \in 1..ArrLen |-> SampleRaw],
                   [i \in 1..ArrLen |-> IF i = 1 THEN SampleRaw ELSE ZeroRaw]},
        ints \in {[i \in 1..ArrLen |-> PyInt(0)], [i \in 1..ArrLen |-> PyInt(MaxNum)]}}

(* Actions *)

\* self.to_ctype(padding, hook). Conversions do not depend on earlier ones, so
\* a behaviour holds one encode, then one decode of its result, or one decode
\* of a buffer.
to_ctype(v, hook) ==
    LET eff == EncodeHookFor(hook)
        r == dataclass2ctypes(v, eff, <<>>, NewTrace)
    IN /\ enc = Idle /\ dec = Idle
       /\ enc' = Outcome("to_ctype", v, hook, eff, r)
       /\ dec' = Idle
       /\ generated' = generated \cup {v.cls}
       /\ UNCHANGED <<defaults, decode_hook, encode_hook, genVars, dictVars>>

\* cls.from_ctype(structure, padding, hook) on the structure to_ctype returned
from_ctype(hook) ==
    /\ enc.op = "to_ctype" /\ enc.ok /\ dec = Idle
    /\ LET eff == DecodeHookFor(hook)
           r == ctypes2dataclass(enc.arg.cls, enc.val, eff, <<>>, NewTrace)
       IN dec' = Outcome("from_ctype", enc.val, hook, eff, r)
    /\ UNCHANGED <<defaults, decode_hook, encode_hook, generated, enc, genVars, dictVars>>

\* cls.from_buffer_copy(buffer, offset, padding, hook): the structure
\* cls.ctype().from_buffer_copy makes of the bytes, then from_ctype
from_buffer_copy(structure, hook) ==
    /\ enc = Idle /\ dec = Idle
    /\ LET eff == DecodeHookFor(hook)
           r == ctypes2dataclass(structure.ct, structure, eff, <<>>, NewTrace)
       IN dec' = Outcome("from_buffer_copy", structure, hook, eff, r)
    /\ enc' = Idle
    /\ generated' = generated \cup {structure.ct}
    /\ UNCHANGED <<defaults, decode_hook, encode_hook, genVars, dictVars>>

ToCtype == \E v \in ItemObjs \cup DataObjs, hook \in Hooks \cup {NoHook} : to_ctype(v, hook)
FromCtype == \E hook \in Hooks \cup {NoHook} : from_ctype(hook)
FromBufferCopy ==
    \E structure \in ItemRaws \cup DataRaws, hook \in Hooks \cup {NoHook} :
        from_buffer_copy(structure, hook)

GenIdle ==
    /\ classes = <<>> /\ structures = <<>> /\ ctypes_cache = <<>>
    /\ dataclass_cache = <<>> /\ STRUCTURE_DATACLASS_MAP = <<>> /\ gen = Idle
DictIdle == src = <<>> /\ made = Idle

\* the classes are declared (Item's ctypes class is generated when MixInData's
\* fields name it) and nothing has been converted
Init ==
    /\ defaults \in DefaultStyles
    /\ decode_hook \in {NoHook, "double", "decode_str"}
    /\ encode_hook \in {NoHook, "encode_str"}
    /\ generated = {"Item"}
    /\ enc = Idle /\ dec = Idle
    /\ GenIdle /\ DictIdle

Next == ToCtype \/ FromCtype \/ FromBufferCopy

Spec == Init /\ [][Next]_vars

----------------------------------------------------------------------------
(* Reading a conversion's trace *)

Conversions == {c \in {enc, dec} : c.op # "idle"}
Encodes(c) == c.op = "to_ctype"

\* the indices of the hook calls, and of the writes, for one field occurrence
CallsAt(c, p) == {i \in 1..Len(c.st.hooklog) : c.st.hooklog[i].path = p}
WritesAt(c, p) == {i \in 1..Len(c.st.writes) : c.st.writes[i].path = p}
CalledPaths(c) == {c.st.hooklog[i].path : i \in 1..Len(c.st.hooklog)}
WrittenPaths(c) == {c.st.writes[i].path : i \in 1..Len(c.st.writes)}
Min(S) == CHOOSE i \in S : \A j \in S : i <= j
Max(S) == CHOOSE i \in S : \A j \in S : i >= j
FirstCall(c, p) == c.st.hooklog[Min(CallsAt(c, p))]
LastCall(c, p) == c.st.hooklog[Max(CallsAt(c, p))]
LastWrite(c, p) == c.st.writes[Max(WritesAt(c, p))]
OverriddenAt(c, p) == \E i \in WritesAt(c, p) : c.st.writes[i].branch = "hook"

\* what a field of the returned object holds: a dataclass field's value, or
\* the content of a structure's field
ResultField(c, cname) == IF Encodes(c) THEN c.val.raw[cname] ELSE c.val.f[cname]

\* what storing a hook's result v leaves in the field
Stored(c, ctype, v) == IF Encodes(c) THEN CSet(ctype, v) ELSE Ok(v)

\* the class converted and the structure read, at the top level
TopClass(c) == IF Encodes(c) THEN c.arg.cls ELSE c.arg.ct
TopFields(c) == {Fields(TopClass(c))[i] : i \in 1..Len(Fields(TopClass(c)))}
TopPath(cname) == <<[f |-> cname, i |-> 0]>>

\* what lines 79-92 / 109-118 leave in a top-level field when no hook is there
DefaultOutcome(c, fl) ==
    IF Encodes(c)
    THEN LET r == EncodeDefault(Zero(StructType(c.arg.cls)), NoHook, TopPath(fl.name),
                                fl.ctype, CGet(fl.ctype, Zero(fl.ctype)),
                                c.arg.f[fl.name], NewTrace)
         IN IF r.st.err = "-" THEN Ok(r.val.raw[fl.name]) ELSE Raise(r.st.err)
    ELSE LET r == DecodeDefault(c.arg, NoHook, TopPath(fl.name), fl.ctype,
                                CGet(fl.ctype, c.arg.raw[fl.name]),
                                ClassAttr(c.arg.ct, fl.name), <<>>, NewTrace)
         IN IF r.st.err = "-" THEN Ok(r.d[fl.name]) ELSE Raise(r.st.err)

----------------------------------------------------------------------------
(* C2: hook precedence *)

\* a field the hook answered for with a value: it is written once, by the hook
\* branch, with the hook's value, and the returned object holds that value
HookValueKept(c, p) ==
    LET call == LastCall(c, p)
        s == Stored(c, call.ctype, call.res)
    IN /\ \A i \in WritesAt(c, p) : c.st.writes[i].branch = "hook"
       /\ Cardinality(WritesAt(c, p)) <= 1
       /\ WritesAt(c, p) # {} => s.ok /\ LastWrite(c, p).value = s.val
       /\ (c.ok /\ Len(p) = 1) =>
              /\ WritesAt(c, p) # {}
              /\ ResultField(c, p[1].f) = s.val

\* a field the hook answered None for: the hook branch does not write it, and
\* the returned object holds what the default handling gives
DefaultValueKept(c, p) ==
    /\ ~OverriddenAt(c, p)
    /\ (c.ok /\ Len(p) = 1) =>
           LET fl == CHOOSE fl \in TopFields(c) : fl.name = p[1].f
               dflt == DefaultOutcome(c, fl)
           IN dflt.ok /\ ResultField(c, fl.name) = dflt.val

C2_OverrideSeen(c) ==
    /\ c.op # "idle" /\ c.ok /\ c.eff # NoHook
    /\ \E p, q \in CalledPaths(c) :
          /\ Len(p) = 1 /\ Len(q) = 1
          /\ FirstCall(c, p).res.k # "None"
          /\ FirstCall(c, q).res.k = "None"
          /\ LET fl == CHOOSE fl \in TopFields(c) : fl.name = p[1].f
                 dflt == DefaultOutcome(c, fl)
             IN dflt.ok => dflt.val # ResultField(c, fl.name)
----------------------------------------------------------------------------
(* C10: how often the hook is called *)

SameArguments(a, b) ==
    a.path = b.path /\ a.ctype = b.ctype /\ a.cvalue = b.cvalue /\ a.dv = b.dv

\* the calls for one field occurrence: one when the first returns None, else two
\* with the same arguments, one after the other, the second one's result stored
CalledOnceOrTwice(c, p) ==
    LET first == Min(CallsAt(c, p))
        call == c.st.hooklog[first]
    IN IF call.res.k = "None"
       THEN CallsAt(c, p) = {first}
       ELSE /\ CallsAt(c, p) = {first, first + 1}
            /\ SameArguments(call, c.st.hooklog[first + 1])
            /\ LET s == Stored(c, call.ctype, c.st.hooklog[first + 1].res)
               IN /\ WritesAt(c, p) # {} => s.ok /\ LastWrite(c, p).value = s.val
                  /\ (c.ok /\ Len(p) = 1) => ResultField(c, p[1].f) = s.val

\* C10: during one decode or encode with a hook supplied, the hook is called
\* for each field converted: once when its first result is None, twice with
\* identical arguments when it is not, and the value stored for the field is
\* the second call's result.
C10_HookCalls ==
    \A c \in Conversions :
        /\ c.eff = NoHook => c.st.hooklog = <<>>
        /\ c.eff # NoHook => WrittenPaths(c) \subseteq CalledPaths(c)
        /\ \A p \in CalledPaths(c) : CalledOnceOrTwice(c, p)

\* a decode that completed with a hook that is not idempotent: the value stored
\* in a field is the second call's and differs from the one tested against None
C10_Witness ==
    /\ dec.op # "idle" /\ dec.ok
    /\ \E p \in CalledPaths(dec) :
          /\ Len(p) = 1
          /\ Cardinality(CallsAt(dec, p)) = 2
          /\ FirstCall(dec, p).res # LastCall(dec, p).res
          /\ dec.val.f[p[1].f] = LastCall(dec, p).res
    /\ \E q \in CalledPaths(dec) : Cardinality(CallsAt(dec, q)) = 1

----------------------------------------------------------------------------
(* Value objects the claims speak of *)

IsUInt(v) == v.k = "int" /\ v.n >= 0
\* bytes that fit a c_char array and hold no NUL
IsCString(v) == v.k = "bytes" /\ Len(v.b) <= StrLen /\ \A i \in 1..Len(v.b) : v.b[i] # 0
IsItem(v) ==
    v.k = "obj" /\ v.cls = "Item" /\ IsUInt(v.f.number) /\ IsCString(v.f.string)
\* a MixInData whose fields hold what their ctypes call for: an Item, ArrLen
\* Items, ArrLen integers
IsData(v) ==
    /\ v.k = "obj" /\ v.cls = "MixInData" /\ IsUInt(v.f.number)
    /\ IsItem(v.f.item)
    /\ v.f.items.k = "list" /\ Len(v.f.items.e) = ArrLen
    /\ \A i \in 1..ArrLen : IsItem(v.f.items.e[i])
    /\ v.f.int_array.k \in {"list", "tuple"}
    /\ Len(Elements(v.f.int_array)) = ArrLen
    /\ \A i \in 1..ArrLen : IsUInt(Elements(v.f.int_array)[i])

\* an encode with no hook: none passed, none set on the class
NoEncodeHook ==
    /\ decode_hook = NoHook /\ encode_hook = NoHook
    /\ enc.op = "to_ctype" /\ enc.hook = NoHook
NoHooksAtAll == NoEncodeHook /\ (dec.op # "idle" => dec.hook = NoHook)

----------------------------------------------------------------------------
(* C1: round trip *)

\* C1: for a value object v without None fields, with no hook anywhere,
\* from_ctype(v.to_ctype()) is a value object equal to v field for field,
\* nested value objects and sequences of value objects included.
C1_RoundTrip ==
    (NoHooksAtAll /\ (IsItem(enc.arg) \/ IsData(enc.arg))) =>
        /\ enc.ok
        /\ dec.op = "from_ctype" => dec.ok /\ dec.val = enc.arg

----------------------------------------------------------------------------
(* C3: the sentinel rule of decode *)

\* C3: a field no hook overrides whose binary value is falsy and not an int,
\* float or bool is None in the decoded value object.
C3_Sentinel ==
    (dec.op # "idle" /\ dec.ok) =>
        \A fl \in TopFields(dec) :
            (/\ ~OverriddenAt(dec, TopPath(fl.name))
             /\ IsSentinel(CGet(fl.ctype, dec.arg.raw[fl.name])))
            => dec.val.f[fl.name] = None

----------------------------------------------------------------------------
(* C4: decoding an array of structures *)

\* C4: an array field whose elements are structures, with no hook override,
\* decodes to a sequence of the declared length whose i-th element is the
\* value object decoded from the i-th element, not the ctypes array.
C4_ArrayOfComposite ==
    (dec.op # "idle" /\ dec.ok /\ dec.arg.ct = "MixInData"
        /\ ~OverriddenAt(dec, TopPath("items"))) =>
        LET got == dec.val.f.items
        IN /\ got.k = "list"
           /\ Len(got.e) = ArrLen
           /\ \A i \in 1..ArrLen :
                 got.e[i] =
                    ctypes2dataclass("Item", dec.arg.raw.items.a[i], NoHook, <<>>,
                                     NewTrace).val

----------------------------------------------------------------------------
(* C5: encoding a nested value object *)

\* C5: encoding a value object whose field holds a nested value object, with
\* no hook override, leaves in the binary field the structure the recursive
\* encode of the nested object gives; the last write to the field is that
\* structure, not the value object.
C5_NestedEncode ==
    (NoEncodeHook /\ IsData(enc.arg)) =>
        /\ enc.ok
        /\ enc.val.raw.item = dataclass2ctypes(enc.arg.f.item, NoHook, <<>>, NewTrace).val
        /\ LastWrite(enc, TopPath("item")).branch = "nested"

----------------------------------------------------------------------------
(* C7: encoding scalar fields *)

\* a str that fits a c_char array
IsText(v) == v.k = "str" /\ Len(v.s) <= StrLen /\ \A i \in 1..Len(v.s) : v.s[i] # 0

\* C7: for a value object with a number and a string field (the test's
\* Item(1, "abcde")) and no hook, to_ctype() returns a structure whose fields
\* read as the value object's: c.number == v.number and c.string == v.string.
C7_ScalarEncode ==
    (/\ NoEncodeHook /\ enc.arg.cls = "Item"
     /\ IsUInt(enc.arg.f.number)
     /\ (IsText(enc.arg.f.string) \/ IsCString(enc.arg.f.string))) =>
        /\ enc.ok
        /\ \A fl \in TopFields(enc) :
              CGet(fl.ctype, enc.val.raw[fl.name]) = enc.arg.f[fl.name]

----------------------------------------------------------------------------
(* C9: which hook a call without a hook uses *)

\* C9: a hook passed to the call is the one used; without one, from_ctype
\* uses the class's _decode_hook and to_ctype the class's _encode_hook.
C9_DefaultHook ==
    /\ enc.op = "to_ctype" =>
          enc.eff = (IF enc.hook # NoHook THEN enc.hook ELSE encode_hook)
    /\ dec.op # "idle" =>
          dec.eff = (IF dec.hook # NoHook THEN dec.hook ELSE decode_hook)

----------------------------------------------------------------------------
(* The generator: _create_ctypes_class, _create_dataclass and their caches.  *)
(* Value types and ctypes classes are numbered as they are created; a name   *)
(* is a sequence of strings, so that a generated name is a prefix and the    *)
(* name it was made from.                                                    *)

\* value types a program declares, and ctypes structures it declares itself
MaxClasses == 3
MaxStructures == 1
ClassNames == {<<"A">>, <<"B">>}
StructureNames == {<<"S">>}

\* f"_ctypes_generated_from_{datacls.__name__}"
StructureNameOf(name) == <<"_ctypes_generated_from_">> \o name
\* f"_dataclass_generated_from_{structure.__name__}"
DataclassNameOf(name) == <<"_dataclass_generated_from_">> \o name

Called(op, arg, ok, ret) == [op |-> op, arg |-> arg, ok |-> ok, ret |-> ret]

\* dict[key] = value, and the entry functools.cache adds
Store(map, key, value) ==
    [k \in (DOMAIN map) \cup {key} |-> IF k = key THEN value ELSE map[k]]

\* a dataclass deriving from CDataMixIn is declared: two may share a __name__
DeclareClass(name) ==
    /\ Cardinality({i \in 1..Len(classes) : classes[i].declared}) < MaxClasses
    /\ classes' = Append(classes, [name |-> name, declared |-> TRUE])
    /\ gen' = Called("class", name, TRUE, Len(classes) + 1)
    /\ UNCHANGED <<structures, ctypes_cache, dataclass_cache, STRUCTURE_DATACLASS_MAP>>

\* a ctypes.Structure is declared by hand
DeclareStructure(name) ==
    /\ Cardinality({i \in 1..Len(structures) : structures[i].origin = 0}) < MaxStructures
    /\ structures' = Append(structures, [name |-> name, origin |-> 0])
    /\ gen' = Called("Structure", name, TRUE, Len(structures) + 1)
    /\ UNCHANGED <<classes, ctypes_cache, dataclass_cache, STRUCTURE_DATACLASS_MAP>>

\* the body of _create_ctypes_class, run on a cache miss: a new ctypes class,
\* entered in _STRUCTURE_DATACLASS_MAP under its name. A dataclass that
\* _create_dataclass made has fields without ctype metadata, and setting
\* _fields_ raises before the map is touched.
create_ctypes_class(datacls) ==
    IF ~classes[datacls].declared
    THEN [ok |-> FALSE, ret |-> 0, structures |-> structures,
          map |-> STRUCTURE_DATACLASS_MAP]
    ELSE LET structure_name == StructureNameOf(classes[datacls].name)
         IN [ok |-> TRUE, ret |-> Len(structures) + 1,
             structures |-> Append(structures,
                                   [name |-> structure_name, origin |-> datacls]),
             map |-> Store(STRUCTURE_DATACLASS_MAP, structure_name, datacls)]

\* cls.ctype(): _create_ctypes_class(cls, cls._cdata_base_, cls._cdata_pack_)
\* behind functools.cache
ctype(cls) ==
    IF cls \in DOMAIN ctypes_cache
    THEN /\ gen' = Called("ctype", cls, TRUE, ctypes_cache[cls])
         /\ UNCHANGED <<classes, structures, ctypes_cache, dataclass_cache,
                        STRUCTURE_DATACLASS_MAP>>
    ELSE LET r == create_ctypes_class(cls)
         IN /\ gen' = Called("ctype", cls, r.ok, r.ret)
            /\ structures' = r.structures
            /\ STRUCTURE_DATACLASS_MAP' = r.map
            /\ ctypes_cache' = IF r.ok THEN Store(ctypes_cache, cls, r.ret)
                               ELSE ctypes_cache
            /\ UNCHANGED <<classes, dataclass_cache>>

\* _STRUCTURE_DATACLASS_MAP.get(structure.__name__): the value type, or 0 for None
already_defined(structure) ==
    IF structures[structure].name \in DOMAIN STRUCTURE_DATACLASS_MAP
    THEN STRUCTURE_DATACLASS_MAP[structures[structure].name]
    ELSE 0

\* the body of _create_dataclass, run on a cache miss
create_dataclass(structure) ==
    IF already_defined(structure) # 0
    THEN [ret |-> already_defined(structure), classes |-> classes]
    ELSE [ret |-> Len(classes) + 1,
          classes |-> Append(classes,
                             [name |-> DataclassNameOf(structures[structure].name),
                              declared |-> FALSE])]

\* _create_dataclass(structure) behind functools.cache
CreateDataclass(structure) ==
    IF structure \in DOMAIN dataclass_cache
    THEN /\ gen' = Called("_create_dataclass", structure, TRUE, dataclass_cache[structure])
         /\ UNCHANGED <<classes, structures, ctypes_cache, dataclass_cache,
                        STRUCTURE_DATACLASS_MAP>>
    ELSE LET r == create_dataclass(structure)
         IN /\ gen' = Called("_create_dataclass", structure, TRUE, r.ret)
            /\ classes' = r.classes
            /\ dataclass_cache' = Store(dataclass_cache, structure, r.ret)
            /\ UNCHANGED <<structures, ctypes_cache, STRUCTURE_DATACLASS_MAP>>

ConvIdle ==
    /\ defaults = "absent" /\ decode_hook = NoHook /\ encode_hook = NoHook
    /\ generated = {} /\ enc = Idle /\ dec = Idle

Declare ==
    /\ \/ \E name \in ClassNames : DeclareClass(name)
       \/ \E name \in StructureNames : DeclareStructure(name)
    /\ UNCHANGED <<convVars, dictVars>>
Ctype ==
    /\ \E cls \in 1..Len(classes) : ctype(cls)
    /\ UNCHANGED <<convVars, dictVars>>
CreateDataclassOf ==
    /\ \E structure \in 1..Len(structures) : CreateDataclass(structure)
    /\ UNCHANGED <<convVars, dictVars>>

GenInit == GenIdle /\ ConvIdle /\ DictIdle
GenNext == Declare \/ Ctype \/ CreateDataclassOf
GenSpec == GenInit /\ [][GenNext]_vars

----------------------------------------------------------------------------
(* C6: the generator's identity *)

DeclaredClasses == {i \in 1..Len(classes) : classes[i].declared}
\* the ctypes classes generated so far for value type V
DescriptorsOf(V) == {D \in 1..Len(structures) : structures[D].origin = V}
\* what _create_dataclass(D) returns when called now
ReverseLookup(D) ==
    IF D \in DOMAIN dataclass_cache THEN dataclass_cache[D] ELSE create_dataclass(D).ret

\* C6: after any sequence of generation requests over any value types, also
\* ones sharing a class name: ctype() on V returns one and the same descriptor
\* D_V, distinct value types have distinct descriptors, and
\* _create_dataclass(D_V) returns V.
C6_GeneratorIdentity ==
    /\ \A V \in DeclaredClasses :
          /\ Cardinality(DescriptorsOf(V)) <= 1
          /\ V \in DOMAIN ctypes_cache => DescriptorsOf(V) = {ctypes_cache[V]}
          /\ \A D \in DescriptorsOf(V) : ReverseLookup(D) = V
    /\ \A V, W \in DOMAIN ctypes_cache : V # W => ctypes_cache[V] # ctypes_cache[W]
    /\ (gen.op = "ctype" /\ gen.arg \in DeclaredClasses) =>
          gen.ok /\ gen.ret = ctypes_cache[gen.arg]
    /\ (gen.op = "_create_dataclass" /\ structures[gen.arg].origin # 0) =>
          gen.ret = structures[gen.arg].origin

----------------------------------------------------------------------------
(* from_dict: the class called with the mapping's items as keywords *)

\* the keys a mapping may hold: the fields of Item and one no class declares
DictKeys == FieldNames("Item") \cup {"bogus"}
DictValues == {PyInt(n) : n \in Nums} \cup {None}
Mappings == UNION {[keys -> DictValues] : keys \in SUBSET DictKeys}

\* the fields __init__ takes without a default: all of them when the class
\* declares its fields without defaults, none when it declares defaults
RequiredFields(cls) == IF defaults = "absent" THEN FieldNames(cls) ELSE {}

\* the value a field gets: the mapping's, or the field's default
Bound(cls, mapping, n) ==
    IF n \in DOMAIN mapping THEN mapping[n] ELSE ClassAttr(cls, n)

\* from_dict_result with the names the class does not declare dropped
from_dict_lenient(cls, mapping) ==
    IF ~(RequiredFields(cls) \subseteq DOMAIN mapping)
    THEN [ok |-> FALSE, err |-> "TypeError", val |-> None, assigned |-> {}]
    ELSE [ok |-> TRUE, err |-> "-",
          val |-> Obj(cls, [n \in FieldNames(cls) |-> Bound(cls, mapping, n)]),
          assigned |-> FieldNames(cls)]

\* cls called with src's items as keywords: Python binds the keywords to __init__'s parameters and raises
\* TypeError for an unexpected keyword or a missing required argument before
\* the body, which assigns the fields, runs
from_dict_result(cls, mapping) ==
    IF \/ ~(DOMAIN mapping \subseteq FieldNames(cls))
       \/ ~(RequiredFields(cls) \subseteq DOMAIN mapping)
    THEN [ok |-> FALSE, err |-> "TypeError", val |-> None, assigned |-> {}]
    ELSE [ok |-> TRUE, err |-> "-",
          val |-> Obj(cls, [n \in FieldNames(cls) |-> Bound(cls, mapping, n)]),
          assigned |-> FieldNames(cls)]

\* cls.from_dict(src)
from_dict(cls, mapping) ==
    /\ made = Idle
    /\ src' = mapping
    /\ made' = [op |-> "from_dict", cls |-> cls, out |-> from_dict_result(cls, mapping)]

FromDict ==
    /\ \E cls \in Dataclasses, mapping \in Mappings : from_dict(cls, mapping)
    /\ UNCHANGED <<convVars, genVars>>

DictInit ==
    /\ defaults \in DefaultStyles
    /\ decode_hook = NoHook /\ encode_hook = NoHook
    /\ generated = {"Item"} /\ enc = Idle /\ dec = Idle
    /\ GenIdle /\ DictIdle
DictNext == FromDict
DictSpec == DictInit /\ [][DictNext]_vars

----------------------------------------------------------------------------
(* C8: from_dict and a mapping that does not fit *)

Mismatched ==
    \/ ~(RequiredFields(made.cls) \subseteq DOMAIN src)
    \/ ~(DOMAIN src \subseteq FieldNames(made.cls))

\* C8: from_dict, given a mapping that misses a required field or holds a name
\* the value type does not declare, fails (SchemaMismatch; Python's TypeError
\* here) before any field is assigned: no instance is made or returned.
C8_FromDictMismatch ==
    (made.op = "from_dict" /\ Mismatched) =>
        /\ ~made.out.ok
        /\ made.out.err = "TypeError"
        /\ made.out.assigned = {}
        /\ made.out.val = None

\* Item declares its fields without defaults, the mapping holds "string" and
\* misses "number", and the call failed
C8_Witness ==
    /\ made.op = "from_dict" /\ made.cls = "Item"
    /\ "number" \in RequiredFields("Item") /\ "number" \notin DOMAIN src
    /\ "string" \in DOMAIN src
    /\ ~made.out.ok
====
